---- MODULE Spec2Model ----
(***************************************************************************)
(* Model of app.py: the file-backed routing store (numbers.txt), the       *)
(* template file, the admin handlers that rewrite the store, and the alert *)
(* handler with its dispatcher send_sms.                                   *)
(*                                                                         *)
(* A Python str is a sequence of one-character strings.  numbers.txt is    *)
(* the sequence of its lines; a line is a record: a text line (json =      *)
(* FALSE, its characters in s) or the one-line text json.dumps writes for  *)
(* a dict provider (json = TRUE, the dict in obj).  Requests are handled   *)
(* one at a time; the alert handler reads the store once (line 278) and    *)
(* then only talks to providers, one outbound request per step.            *)
(***************************************************************************)
EXTENDS Integers, Sequences, FiniteSets, TLC

VARIABLES
    file,       \* numbers.txt: <<>> when the file does not exist, else <<lines>>
    tfile,      \* template.txt: <<>> when the file does not exist, else <<text>>
    pc,         \* position of the request being handled
    req,        \* the alert request being handled: team, payload
    numbers,    \* send_sms: the numbers argument
    message,    \* send_sms: the message argument
    providers,  \* send_sms: the providers argument
    pi,         \* send_sms: index of the provider of the current iteration
    nj,         \* send_sms: index of the next element of numbers to look at
    seen,       \* send_sms: seen_numbers of the current provider
    log,        \* the outbound requests, failures and pacing waits, in order
    response,   \* the response of the request last handled
    workers     \* the admin requests handled concurrently, one thread each: the
                \* request, the thread's position, its local teams and providers

vars == <<file, tfile, pc, req, numbers, message, providers, pi, nj, seen, log, response,
          workers>>

(* ------------------------------ bounds -------------------------------- *)
\* The provider list of the store holds at most this many entries.
MaxProviders == 1
\* A team's destination list in the store holds at most this many entries.
MaxEntries == 2
\* The dispatcher called on its own: numbers sequences up to this long,
MaxNumbers == 3
\* and provider lists up to this long.
MaxSendProviders == 2
\* build_message called on its own: payloads with up to this many alert entries.
MaxAlerts == 2

(* ------------------------------ strings ------------------------------- *)
StartsWith(s, c) == Len(s) > 0 /\ s[1] = c
EndsWith(s, c) == Len(s) > 0 /\ s[Len(s)] = c

IsSpace(c) == c \in {" ", "\t", "\n"}

RECURSIVE LStrip(_)
LStrip(s) == IF Len(s) > 0 /\ IsSpace(s[1]) THEN LStrip(Tail(s)) ELSE s

RECURSIVE RStrip(_)
RStrip(s) ==
    IF Len(s) > 0 /\ IsSpace(s[Len(s)]) THEN RStrip(SubSeq(s, 1, Len(s) - 1)) ELSE s

\* str.strip()
Strip(s) == RStrip(LStrip(s))

\* Python's s[1:-1]
Inner(s) == SubSeq(s, 2, Len(s) - 1)

\* index of the first occurrence of character c in s, 0 when there is none
RECURSIVE IndexOf(_, _, _)
IndexOf(s, c, k) ==
    IF k > Len(s) THEN 0 ELSE IF s[k] = c THEN k ELSE IndexOf(s, c, k + 1)

\* sub in s, for strings
Contains(sub, s) ==
    \E k \in 0..(Len(s) - Len(sub)) : SubSeq(s, k + 1, k + Len(sub)) = sub

\* str.splitlines() of a text whose line terminator is "\n"
RECURSIVE SplitLines(_)
SplitLines(s) ==
    IF Len(s) = 0 THEN <<>>
    ELSE LET k == IndexOf(s, "\n", 1) IN
         IF k = 0 THEN <<s>>
         ELSE <<SubSeq(s, 1, k - 1)>> \o SplitLines(SubSeq(s, k + 1, Len(s)))

(* --------------------------- the routing store ------------------------ *)
\* TEAMS, line 14
TEAMS == << <<"a","l","l">>, <<"d","e","v","o","p","s">>, <<"c","l","o","u","d">>,
            <<"w","e","b">>, <<"n","o","c">>, <<"m","a","n","a","g","e","r","s">> >>

TeamSet == {TEAMS[k] : k \in 1..Len(TEAMS)}
All == TEAMS[1]
SmsProvider == <<"s","m","s","_","p","r","o","v","i","d","e","r">>

\* A provider in memory: a dict (dict = TRUE: its "url" key when hasUrl, its
\* "headers" as the set of header names), a bare string (dict = FALSE, hasUrl =
\* TRUE, the string in url) or None (dict = FALSE, hasUrl = FALSE).
Bare(u) == [dict |-> FALSE, hasUrl |-> TRUE, url |-> u, headers |-> {}]
NoneProvider == [dict |-> FALSE, hasUrl |-> FALSE, url |-> <<>>, headers |-> {}]
Dict(u, h) == [dict |-> TRUE, hasUrl |-> TRUE, url |-> u, headers |-> h]
DictNoUrl(h) == [dict |-> TRUE, hasUrl |-> FALSE, url |-> <<>>, headers |-> h]

TextLine(s) == [json |-> FALSE, s |-> s, obj |-> NoneProvider]
JsonLine(p) == [json |-> TRUE, s |-> <<>>, obj |-> p]

\* the characters of a line; of the text json.dumps wrote, what the parser
\* looks at: it starts with "{", ends with "}" and holds no newline
LineText(l) == IF l.json THEN <<"{">> \o l.obj.url \o <<"}">> ELSE l.s

\* f.write(f"[{t}]\n") and the like: the lines one written text adds
WriteText(s) == [k \in 1..Len(SplitLines(s)) |-> TextLine(SplitLines(s)[k])]

\* the file load_numbers creates when there is none, lines 22-26
RECURSIVE DefaultSections(_)
DefaultSections(k) ==
    IF k > Len(TEAMS) THEN <<>>
    ELSE WriteText(<<"[">> \o TEAMS[k] \o <<"]", "\n", "\n">>) \o DefaultSections(k + 1)

DefaultFile ==
    DefaultSections(1) \o WriteText(<<"[">> \o SmsProvider \o <<"]", "\n", "\n">>)

\* the content load_numbers reads: it creates the file first when it is missing
ReadFile(f) == IF f = <<>> THEN DefaultFile ELSE f[1]

EmptyTeams == [t \in TeamSet |-> <<>>]

\* lines 52-55: one destination line
ParseEntry(line) ==
    LET k == IndexOf(line, "|", 1) IN
    IF k = 0 THEN [number |-> Strip(line), desc |-> <<>>]
    ELSE [number |-> Strip(SubSeq(line, 1, k - 1)),
          desc |-> Strip(SubSeq(line, k + 1, Len(line)))]

\* lines 36-55: one iteration of the parsing loop; st.cur is current_team,
\* <<>> for None.  Line 47 hands a line that starts with "{" to json.loads: the
\* lines json.dumps wrote come back as the dict they were written from; no
\* bare provider string of the inputs below starts with "{".
ParseLine(st, raw) ==
    LET line == Strip(LineText(raw)) IN
    IF Len(line) = 0 THEN st
    ELSE IF StartsWith(line, "[") /\ EndsWith(line, "]") THEN
        LET section == Strip(Inner(line)) IN
        IF section \in TeamSet THEN [st EXCEPT !.cur = section]
        ELSE IF section = SmsProvider THEN [st EXCEPT !.cur = SmsProvider]
        ELSE st
    ELSE IF st.cur = SmsProvider THEN
        [st EXCEPT !.providers = Append(@, IF raw.json THEN raw.obj ELSE Bare(line))]
    ELSE IF st.cur \in TeamSet THEN
        [st EXCEPT !.teams[st.cur] = Append(@, ParseEntry(line))]
    ELSE st

RECURSIVE ParseLines(_, _, _)
ParseLines(st, lines, k) ==
    IF k > Len(lines) THEN st ELSE ParseLines(ParseLine(st, lines[k]), lines, k + 1)

\* load_numbers, lines 20-57: the teams and the providers it returns
load_numbers(f) ==
    ParseLines([teams |-> EmptyTeams, providers |-> <<>>, cur |-> <<>>], ReadFile(f), 1)

\* lines 65-71: the lines written for one team's entries
RECURSIVE WriteEntries(_, _)
WriteEntries(entries, k) ==
    IF k > Len(entries) THEN <<>>
    ELSE WriteText(IF Len(entries[k].desc) > 0
                   THEN entries[k].number \o <<" ", "|", " ">> \o entries[k].desc \o <<"\n">>
                   ELSE entries[k].number \o <<"\n">>)
         \o WriteEntries(entries, k + 1)

\* lines 63-72
RECURSIVE WriteTeams(_, _)
WriteTeams(teams, k) ==
    IF k > Len(TEAMS) THEN <<>>
    ELSE WriteText(<<"[">> \o TEAMS[k] \o <<"]", "\n">>)
         \o WriteEntries(teams[TEAMS[k]], 1)
         \o WriteText(<<"\n">>)
         \o WriteTeams(teams, k + 1)

\* lines 75-79: json.dumps(p) for a dict, str(p) otherwise
RECURSIVE WriteProviders(_, _)
WriteProviders(ps, k) ==
    IF k > Len(ps) THEN <<>>
    ELSE (IF ps[k].dict THEN <<JsonLine(ps[k])>>
          ELSE IF ps[k].hasUrl THEN WriteText(ps[k].url \o <<"\n">>)
          ELSE WriteText(<<"N","o","n","e","\n">>))
         \o WriteProviders(ps, k + 1)

\* save_numbers, lines 60-79: the file it leaves
save_numbers(teams, ps) ==
    << WriteTeams(teams, 1)
       \o WriteText(<<"[">> \o SmsProvider \o <<"]", "\n">>)
       \o WriteProviders(ps, 1) >>

(* ------------------------------ templates ----------------------------- *)
\* DEFAULT_TEMPLATE, line 16: "{status} {summary}"
DEFAULT_TEMPLATE ==
    <<"{","s","t","a","t","u","s","}"," ","{","s","u","m","m","a","r","y","}">>

KStatus == <<"s","t","a","t","u","s">>
KSummary == <<"s","u","m","m","a","r","y">>
KDescription == <<"d","e","s","c","r","i","p","t","i","o","n">>
KAlertname == <<"a","l","e","r","t","n","a","m","e">>

\* get_template, lines 82-86: <<>> for None, else <<text>>
get_template(tf) == IF tf = <<>> THEN <<>> ELSE <<Strip(tf[1])>>

\* save_template, lines 89-95: t is <<>> for an absent form field
save_template(t) == IF t = <<>> \/ Len(t[1]) = 0 THEN <<>> ELSE t

\* a format that puts the empty string for a name that is no key
RECURSIVE Format_lenient(_, _, _)
Format_lenient(tpl, kw, k) ==
    IF k > Len(tpl) THEN [ok |-> TRUE, text |-> <<>>]
    ELSE IF tpl[k] = "{" THEN
        LET e == IndexOf(tpl, "}", k + 1) IN
        IF e = 0 THEN [ok |-> FALSE, text |-> <<>>]
        ELSE LET r == Format_lenient(tpl, kw, e + 1)
                 name == SubSeq(tpl, k + 1, e - 1) IN
             [r EXCEPT !.text = (IF name \in DOMAIN kw THEN kw[name] ELSE <<>>) \o @]
    ELSE LET r == Format_lenient(tpl, kw, k + 1) IN [r EXCEPT !.text = <<tpl[k]>> \o @]

\* str.format(**kw) with keyword arguments only: kw maps field names to
\* strings.  "{{" and "}}" are literal braces, "{name}" is kw[name]; a name
\* that is no key (the empty name included), a "{" without its "}" and a single
\* "}" raise.  The result is [ok, text]; ok = FALSE when format raises.
RECURSIVE Format(_, _, _)
Format(tpl, kw, k) ==
    IF k > Len(tpl) THEN [ok |-> TRUE, text |-> <<>>]
    ELSE IF tpl[k] = "{" THEN
        IF k < Len(tpl) /\ tpl[k + 1] = "{" THEN
            LET r == Format(tpl, kw, k + 2) IN [r EXCEPT !.text = <<"{">> \o @]
        ELSE
            LET e == IndexOf(tpl, "}", k + 1) IN
            IF e = 0 \/ SubSeq(tpl, k + 1, e - 1) \notin DOMAIN kw
            THEN [ok |-> FALSE, text |-> <<>>]
            ELSE LET r == Format(tpl, kw, e + 1) IN
                 [r EXCEPT !.text = kw[SubSeq(tpl, k + 1, e - 1)] \o @]
    ELSE IF tpl[k] = "}" THEN
        IF k < Len(tpl) /\ tpl[k + 1] = "}" THEN
            LET r == Format(tpl, kw, k + 2) IN [r EXCEPT !.text = <<"}">> \o @]
        ELSE [ok |-> FALSE, text |-> <<>>]
    ELSE LET r == Format(tpl, kw, k + 1) IN [r EXCEPT !.text = <<tpl[k]>> \o @]

(* ---------------------------- build_message --------------------------- *)
\* A payload is the JSON object of the request: keys is the set of its
\* top-level keys; alerts, state, message and ruleName are the values of those
\* keys (read only when the key is present).  An alert entry likewise: has is
\* the set of the keys present among status, annotations.summary,
\* annotations.description and labels.alertname.
Get(has, key, val, default) == IF key \in has THEN val ELSE default

Firing == <<"f","i","r","i","n","g">>
NoSummary == <<"N","o"," ","s","u","m","m","a","r","y">>
NoMessage == <<"N","o"," ","m","e","s","s","a","g","e">>

\* lines 104-112: the keyword arguments of one alert entry
AlertKw(a) ==
    (KStatus :> Get(a.has, "status", a.status, Firing)) @@
    (KSummary :> Get(a.has, "summary", a.summary, NoSummary)) @@
    (KDescription :> Get(a.has, "description", a.description, <<>>)) @@
    (KAlertname :> Get(a.has, "alertname", a.alertname, <<>>))

\* lines 116-119: the keyword arguments of the state form
StateKw(data) ==
    (KStatus :> Get(data.keys, "state", data.state, Firing)) @@
    (KSummary :> Get(data.keys, "message", data.message, NoMessage)) @@
    (KAlertname :> Get(data.keys, "ruleName", data.ruleName, <<>>))

\* lines 103-113: messages after the entries from k on; ok = FALSE when a
\* format raised
RECURSIVE FormatAlerts(_, _, _)
FormatAlerts(tpl, alerts, k) ==
    IF k > Len(alerts) THEN [ok |-> TRUE, msgs |-> <<>>]
    ELSE LET m == Format(tpl, AlertKw(alerts[k]), 1) IN
         IF ~m.ok THEN [ok |-> FALSE, msgs |-> <<>>]
         ELSE LET r == FormatAlerts(tpl, alerts, k + 1) IN
              [r EXCEPT !.msgs = <<m.text>> \o @]

\* every message followed by "\n"
RECURSIVE Join_trailing(_, _)
Join_trailing(msgs, k) ==
    IF k > Len(msgs) THEN <<>> ELSE msgs[k] \o <<"\n">> \o Join_trailing(msgs, k + 1)

\* "\n".join(messages)
RECURSIVE Join(_, _)
Join(msgs, k) ==
    IF k > Len(msgs) THEN <<>>
    ELSE IF k = Len(msgs) THEN msgs[k]
    ELSE msgs[k] \o <<"\n">> \o Join(msgs, k + 1)

\* build_message with the test of line 115 made before the test of line 102
build_message_statefirst(data, custom) ==
    LET template == IF custom # <<>> /\ Len(custom[1]) > 0 THEN custom[1]
                    ELSE DEFAULT_TEMPLATE IN
    IF "title" \in data.keys /\ "state" \in data.keys THEN
        Format(template, StateKw(data), 1)
    ELSE IF "alerts" \in data.keys THEN
        LET r == FormatAlerts(template, data.alerts, 1) IN
        [ok |-> r.ok, text |-> Join(r.msgs, 1)]
    ELSE [ok |-> TRUE, text |-> <<>>]

\* build_message, lines 98-122: custom is <<>> for None; [ok, text], ok =
\* FALSE when it raises
build_message(data, custom) ==
    LET template == IF custom # <<>> /\ Len(custom[1]) > 0 THEN custom[1]
                    ELSE DEFAULT_TEMPLATE IN
    IF "alerts" \in data.keys THEN
        LET r == FormatAlerts(template, data.alerts, 1) IN
        [ok |-> r.ok, text |-> Join(r.msgs, 1)]
    ELSE IF "title" \in data.keys /\ "state" \in data.keys THEN
        Format(template, StateKw(data), 1)
    ELSE [ok |-> TRUE, text |-> <<>>]

(* ------------------------------ send_sms ------------------------------ *)
Hooks == <<"/","h","o","o","k","s","/">>

\* lines 130-135: url of a provider, <<>> when it is None or ""
ProviderUrl(p) == IF p.hasUrl THEN p.url ELSE <<>>

\* lines 130-135: headers of a provider
ProviderHeaders(p) == IF p.dict THEN p.headers ELSE {}

\* if url is None: continue
Skipped_none(p) == ~p.hasUrl

\* line 137: if not url: continue
Skipped(p) == Len(ProviderUrl(p)) = 0

\* "/hooks" in url
IsWebhook_short(url) == Contains(<<"/","h","o","o","k","s">>, url)

\* line 141: "/hooks/" in url
IsWebhook(url) == Contains(Hooks, url)

\* the loop over numbers without the seen_numbers test
NextUnseen_noseen(nums, sn, j) == IF j > Len(nums) THEN 0 ELSE j

\* the loop over numbers run from the last element to the first
NextUnseen_reversed(nums, sn, j) ==
    IF \A k \in 1..Len(nums) : nums[k] \in sn THEN 0
    ELSE CHOOSE k \in 1..Len(nums) :
            nums[k] \notin sn /\ \A m \in (k + 1)..Len(nums) : nums[m] \in sn

\* lines 149-152: index of the next element of nums, from j on, that is not in
\* sn; 0 when the loop over nums is exhausted
RECURSIVE NextUnseen(_, _, _)
NextUnseen(nums, sn, j) ==
    IF j > Len(nums) THEN 0
    ELSE IF nums[j] \in sn THEN NextUnseen(nums, sn, j + 1)
    ELSE j

\* the try encloses the whole loop over providers: the first failure ends it
AfterRaise_break == "returned"

\* no try at all: the exception leaves send_sms and the handler
AfterRaise_escape == "escape"

\* lines 159-162: where control goes when a request raised inside the try
AfterRaise == "sleep"

\* one record of the log: an outbound request (kind "json": requests.post with
\* json=, kind "form": with data=) with its outcome ("ok": a response came
\* back, whatever its status code; "raise": requests raised, which the handler
\* of line 159 records as a failure), or a pacing wait (kind "sleep")
Request(i, kind, p, to, text, outcome) ==
    [prov |-> i, kind |-> kind, url |-> ProviderUrl(p), headers |-> ProviderHeaders(p),
     to |-> to, text |-> text, outcome |-> outcome]
Pause(i) ==
    [prov |-> i, kind |-> "sleep", url |-> <<>>, headers |-> {},
     to |-> <<>>, text |-> <<>>, outcome |-> "ok"]

Outcomes == {"ok", "raise"}

NoResponse == [status |-> "none", sent_to |-> <<>>]

\* lines 137-138: a provider without url is passed over, without a pacing wait
SendSkip ==
    /\ pc = "loop" /\ pi <= Len(providers)
    /\ Skipped(providers[pi])
    /\ pi' = pi + 1
    /\ UNCHANGED <<file, tfile, pc, req, numbers, message, providers, nj, seen, log, response, workers>>

\* lines 141-144: the one request to a webhook provider
SendWebhook ==
    /\ pc = "loop" /\ pi <= Len(providers)
    /\ ~Skipped(providers[pi])
    /\ IsWebhook(ProviderUrl(providers[pi]))
    /\ \E o \in Outcomes :
        /\ log' = Append(log, Request(pi, "json", providers[pi], <<>>, message, o))
        /\ pc' = IF o = "raise" THEN AfterRaise ELSE "sleep"
    /\ UNCHANGED <<file, tfile, req, numbers, message, providers, pi, nj, seen, response, workers>>

\* lines 149-157: the request for the next number not seen yet
SendNumber ==
    /\ pc = "loop" /\ pi <= Len(providers)
    /\ ~Skipped(providers[pi])
    /\ ~IsWebhook(ProviderUrl(providers[pi]))
    /\ NextUnseen(numbers, seen, nj) # 0
    /\ LET k == NextUnseen(numbers, seen, nj) IN
       \E o \in Outcomes :
        /\ log' = Append(log, Request(pi, "form", providers[pi], numbers[k], message, o))
        /\ IF o = "raise"
           THEN pc' = AfterRaise /\ nj' = 1 /\ seen' = {}
           ELSE pc' = pc /\ nj' = k + 1 /\ seen' = seen \cup {numbers[k]}
    /\ UNCHANGED <<file, tfile, req, numbers, message, providers, pi, response, workers>>

\* line 149: the loop over numbers is exhausted
SendNumbersDone ==
    /\ pc = "loop" /\ pi <= Len(providers)
    /\ ~Skipped(providers[pi])
    /\ ~IsWebhook(ProviderUrl(providers[pi]))
    /\ NextUnseen(numbers, seen, nj) = 0
    /\ pc' = "sleep" /\ nj' = 1 /\ seen' = {}
    /\ UNCHANGED <<file, tfile, req, numbers, message, providers, pi, log, response, workers>>

\* time.sleep(1) as the last statement of the try: no wait after an exception
SendSleep_intry ==
    /\ pc = "sleep"
    /\ log' = IF Len(log) > 0 /\ log[Len(log)].outcome = "raise" THEN log
              ELSE Append(log, Pause(pi))
    /\ pi' = pi + 1
    /\ pc' = "loop"
    /\ UNCHANGED <<file, tfile, req, numbers, message, providers, nj, seen, response, workers>>

\* line 162: time.sleep(1), then the next provider
SendSleep ==
    /\ pc = "sleep"
    /\ log' = Append(log, Pause(pi))
    /\ pi' = pi + 1
    /\ pc' = "loop"
    /\ UNCHANGED <<file, tfile, req, numbers, message, providers, nj, seen, response, workers>>

\* line 128: the loop over providers is exhausted, send_sms returns
SendReturn ==
    /\ pc = "loop" /\ pi > Len(providers)
    /\ pc' = "returned"
    /\ UNCHANGED <<file, tfile, req, numbers, message, providers, pi, nj, seen, log, response, workers>>

Send == SendSkip \/ SendWebhook \/ SendNumber \/ SendNumbersDone \/ SendSleep \/ SendReturn

(* ------------------------------- inputs ------------------------------- *)
N1 == <<"1">>
N2 == <<"2">>
N3 == <<"3">>
N1sp == <<"1", " ">>

\* the number and desc form fields of add_number requests; <<>> is a missing
\* or empty number
AddForms ==
    { [number |-> N1, desc |-> <<>>], [number |-> N1sp, desc |-> <<>>],
      [number |-> N2, desc |-> <<"d">>], [number |-> <<>>, desc |-> <<>>] }

Bogus == <<"o","p","s">>
\* the team path segment of requests
ReqTeams == {All, TEAMS[2], Bogus}
\* the number path segment of remove_number requests
ReqNumbers == {N1, N2}

HookUrl == <<"h",":","/","h","o","o","k","s","/","a">>
SmsUrl == <<"h",":","/","s","m","s">>
NearUrl == <<"h",":","/","h","o","o","k","s">>
Auth == {"Authorization"}

\* the url and headers form fields of add_provider requests (headers: the
\* header names of the parsed JSON, {} when the field is empty or no JSON)
ProviderForms ==
    { [url |-> HookUrl, headers |-> {}], [url |-> SmsUrl, headers |-> {}],
      [url |-> <<>>, headers |-> Auth], [url |-> <<>>, headers |-> {}] }

TDesc == <<"{","a","l","e","r","t","n","a","m","e","}",":","{","d","e","s","c","r","i","p","t","i","o","n","}">>
\* the template form field of set_template requests
TemplateForms == { <<>>, <<TDesc>> }

Entry1 == [has |-> {"status", "summary", "alertname"},
           status |-> <<"u","p">>, summary |-> <<"s","1">>,
           description |-> <<>>, alertname |-> <<"A">>]
NoData == [keys |-> {}, alerts |-> <<>>, state |-> <<>>, message |-> <<>>, ruleName |-> <<>>]
MultiData == [NoData EXCEPT !.keys = {"alerts"}, !.alerts = <<Entry1>>]
StateData == [NoData EXCEPT !.keys = {"title", "state", "message"},
                            !.state = <<"o","k">>, !.message = <<"m">>]
OtherData == [NoData EXCEPT !.keys = {"state"}, !.state = <<"o","k">>]
\* the JSON bodies of alert requests
Payloads == {MultiData, StateData, OtherData}

(* --------------------------- the admin routes ------------------------- *)
NoReq == [team |-> <<>>, data |-> NoData]
\* no request is handled on a thread of its own
NoWorkers == <<>>

Idle ==
    /\ pc = "idle"
    /\ UNCHANGED <<pc, req, numbers, message, providers, pi, nj, seen, log, response, workers>>

HasNumber(entries, n) == \E k \in 1..Len(entries) : entries[k].number = n

\* lines 218-222: teams after the appends
AddedTeams(teams, team, n, d) ==
    LET e == [number |-> n, desc |-> d]
        t1 == IF HasNumber(teams[team], n) THEN teams
              ELSE [teams EXCEPT ![team] = Append(@, e)]
    IN IF HasNumber(t1[All], n) THEN t1 ELSE [t1 EXCEPT ![All] = Append(@, e)]

\* index, lines 204-209: loads the store (creating the file) and renders it
index ==
    /\ Idle
    /\ file' = <<ReadFile(file)>>
    /\ UNCHANGED tfile

\* add_number, lines 212-225
add_number(team, form) ==
    /\ Idle
    /\ LET ld == load_numbers(file) IN
       IF team \in TeamSet /\ Len(form.number) > 0
       THEN /\ Len(ld.teams[team]) < MaxEntries
            /\ Len(ld.teams[All]) < MaxEntries
            /\ file' = save_numbers(AddedTeams(ld.teams, team, form.number, form.desc),
                                    ld.providers)
       ELSE file' = <<ReadFile(file)>>
    /\ UNCHANGED tfile

\* line 232: the entries kept
Kept(entries, n) == LET keep(e) == e.number # n IN SelectSeq(entries, keep)

\* remove_number, lines 228-234
remove_number(team, n) ==
    /\ Idle
    /\ LET ld == load_numbers(file) IN
       IF team \in TeamSet
       THEN file' = save_numbers([ld.teams EXCEPT ![team] = Kept(@, n)], ld.providers)
       ELSE file' = <<ReadFile(file)>>
    /\ UNCHANGED tfile

\* line 250: the provider built from the form
FormProvider(form) ==
    IF form.headers # {} THEN Dict(form.url, form.headers) ELSE Bare(form.url)

InSeq(x, s) == \E k \in 1..Len(s) : s[k] = x

\* add_provider, lines 237-255
add_provider(form) ==
    /\ Idle
    /\ LET ld == load_numbers(file)
           p == FormProvider(form) IN
       /\ Len(ld.providers) < MaxProviders
       /\ file' = save_numbers(ld.teams,
                    IF InSeq(p, ld.providers) THEN ld.providers ELSE Append(ld.providers, p))
    /\ UNCHANGED tfile

\* list.pop(idx), idx counted from 0
Pop(s, idx) == SubSeq(s, 1, idx) \o SubSeq(s, idx + 2, Len(s))

\* remove_provider, lines 258-264
remove_provider(idx) ==
    /\ Idle
    /\ LET ld == load_numbers(file) IN
       IF 0 <= idx /\ idx < Len(ld.providers)
       THEN file' = save_numbers(ld.teams, Pop(ld.providers, idx))
       ELSE file' = <<ReadFile(file)>>
    /\ UNCHANGED tfile

\* set_template, lines 267-271
set_template(t) ==
    /\ Idle
    /\ tfile' = save_template(t)
    /\ UNCHANGED file

(* ------------------------------- alert -------------------------------- *)
\* teams.get(team, teams["all"])
TeamEntries_all(teams, team) == IF team \in DOMAIN teams THEN teams[team] ELSE teams[All]

\* line 280: teams.get(team, [])
TeamEntries(teams, team) == IF team \in DOMAIN teams THEN teams[team] ELSE <<>>

\* the loop of lines 283-287 without the seen test
RECURSIVE Unique_nodedup(_, _, _)
Unique_nodedup(entries, sn, k) ==
    IF k > Len(entries) THEN <<>>
    ELSE <<entries[k].number>> \o Unique_nodedup(entries, sn, k + 1)

\* lines 281-287: the numbers of entries from k on that are not in sn, each once
RECURSIVE Unique(_, _, _)
Unique(entries, sn, k) ==
    IF k > Len(entries) THEN <<>>
    ELSE IF entries[k].number \in sn THEN Unique(entries, sn, k + 1)
    ELSE <<entries[k].number>> \o Unique(entries, sn \cup {entries[k].number}, k + 1)

\* lines 280-287: unique_numbers
unique_numbers(teams, team) == Unique(TeamEntries(teams, team), {}, 1)

\* the handler writes the resolved recipients back as the team's list
AlertBegin_persist(team, data) ==
    /\ pc = "idle"
    /\ LET ld == load_numbers(file)
           m == build_message(data, get_template(tfile)) IN
       /\ file' = IF team \in TeamSet
                  THEN LET u == unique_numbers(ld.teams, team) IN
                       save_numbers([ld.teams EXCEPT ![team] =
                                        [n \in 1..Len(u) |-> [number |-> u[n], desc |-> <<>>]]],
                                    ld.providers)
                  ELSE <<ReadFile(file)>>
       /\ req' = [team |-> team, data |-> data]
       /\ numbers' = unique_numbers(ld.teams, team)
       /\ IF m.ok
          THEN /\ message' = m.text
               /\ providers' = ld.providers
               /\ pc' = "loop"
               /\ response' = NoResponse
          ELSE /\ message' = <<>>
               /\ providers' = <<>>
               /\ pc' = "done"
               /\ response' = [status |-> "error", sent_to |-> <<>>]
    /\ pi' = 1 /\ nj' = 1 /\ seen' = {} /\ log' = <<>>
    /\ UNCHANGED <<tfile, workers>>

\* the handler answers without dispatching when there is no recipient
AlertBegin_guarded(team, data) ==
    /\ pc = "idle"
    /\ LET ld == load_numbers(file)
           m == build_message(data, get_template(tfile))
           u == unique_numbers(ld.teams, team) IN
       /\ file' = <<ReadFile(file)>>
       /\ req' = [team |-> team, data |-> data]
       /\ numbers' = u
       /\ IF m.ok /\ u # <<>>
          THEN /\ message' = m.text
               /\ providers' = ld.providers
               /\ pc' = "loop"
               /\ response' = NoResponse
          ELSE /\ message' = IF m.ok THEN m.text ELSE <<>>
               /\ providers' = IF m.ok THEN ld.providers ELSE <<>>
               /\ pc' = "done"
               /\ response' = [status |-> IF m.ok THEN "ok" ELSE "error", sent_to |-> <<>>]
    /\ pi' = 1 /\ nj' = 1 /\ seen' = {} /\ log' = <<>>
    /\ UNCHANGED <<tfile, workers>>

\* lines 276-290: the request is read, the store loaded, the numbers resolved
\* and the message built; send_sms is entered unless build_message raised
AlertBegin(team, data) ==
    /\ pc = "idle"
    /\ LET ld == load_numbers(file)
           m == build_message(data, get_template(tfile)) IN
       /\ file' = <<ReadFile(file)>>
       /\ req' = [team |-> team, data |-> data]
       /\ numbers' = unique_numbers(ld.teams, team)
       /\ IF m.ok
          THEN /\ message' = m.text
               /\ providers' = ld.providers
               /\ pc' = "loop"
               /\ response' = NoResponse
          ELSE /\ message' = <<>>
               /\ providers' = <<>>
               /\ pc' = "done"
               /\ response' = [status |-> "error", sent_to |-> <<>>]
    /\ pi' = 1 /\ nj' = 1 /\ seen' = {} /\ log' = <<>>
    /\ UNCHANGED <<tfile, workers>>

\* line 292: the response after send_sms returned
AlertRespond ==
    /\ pc = "returned"
    /\ response' = [status |-> "ok", sent_to |-> numbers]
    /\ pc' = "done"
    /\ UNCHANGED <<file, tfile, req, numbers, message, providers, pi, nj, seen, log, workers>>

\* the request is over; its locals are gone
AlertEnd ==
    /\ pc = "done"
    /\ pc' = "idle"
    /\ req' = NoReq /\ numbers' = <<>> /\ message' = <<>> /\ providers' = <<>>
    /\ pi' = 1 /\ nj' = 1 /\ seen' = {} /\ log' = <<>> /\ response' = NoResponse
    /\ UNCHANGED <<file, tfile, workers>>

(* --------------------------- specifications --------------------------- *)
\* a fresh deployment: neither file exists, no request is being handled
Init ==
    /\ file = <<>> /\ tfile = <<>>
    /\ pc = "idle" /\ req = NoReq
    /\ numbers = <<>> /\ message = <<>> /\ providers = <<>>
    /\ pi = 1 /\ nj = 1 /\ seen = {} /\ log = <<>>
    /\ response = NoResponse
    /\ workers = NoWorkers

Next ==
    \/ index
    \/ \E team \in ReqTeams, form \in AddForms : add_number(team, form)
    \/ \E team \in ReqTeams, n \in ReqNumbers : remove_number(team, n)
    \/ \E form \in ProviderForms : add_provider(form)
    \/ \E idx \in 0..MaxProviders : remove_provider(idx)
    \/ \E t \in TemplateForms : set_template(t)
    \/ \E team \in ReqTeams, data \in Payloads : AlertBegin(team, data)
    \/ Send
    \/ AlertRespond
    \/ AlertEnd

Spec == Init /\ [][Next]_vars

(* --------------------- send_sms called on its own --------------------- *)
Digits == <<"1","2","3","4","5","6","7","8","9">>

\* send_sms only compares numbers for equality, so the numbers sequences are
\* taken up to renaming: the k-th distinct number of a sequence is Digits[k]
Canonical(s) ==
    \A k \in 1..Len(s) :
        LET before == {s[m] : m \in 1..(k - 1)} IN
        s[k] \in before \/ s[k] = <<Digits[Cardinality(before) + 1]>>

NumberSeqs ==
    { s \in UNION { [1..n -> {<<Digits[d]>> : d \in 1..MaxNumbers}] : n \in 0..MaxNumbers } :
        Canonical(s) }

SendProviders ==
    { Bare(HookUrl), Bare(SmsUrl), Bare(<<>>), DictNoUrl(Auth), Dict(NearUrl, Auth) }

ProviderSeqs == UNION { [1..n -> SendProviders] : n \in 0..MaxSendProviders }

Msg == <<"u","p"," ","s","1">>

\* send_sms(numbers, message, providers) is entered with any arguments
InitSend ==
    /\ file = <<>> /\ tfile = <<>>
    /\ pc = "loop" /\ req = NoReq
    /\ numbers \in NumberSeqs
    /\ message = Msg
    /\ providers \in ProviderSeqs
    /\ pi = 1 /\ nj = 1 /\ seen = {} /\ log = <<>>
    /\ response = NoResponse
    /\ workers = NoWorkers

SpecSend == InitSend /\ [][Send]_vars

(* -------------------- alert requests on a given store ----------------- *)
Entries(s) == [k \in 1..Len(s) |-> [number |-> s[k], desc |-> <<>>]]

\* the stores: team devops holds any of the numbers sequences, mirrored in all
StoreTeams ==
    { [EmptyTeams EXCEPT ![TEAMS[2]] = Entries(s), ![All] = Entries(s)] : s \in NumberSeqs }

StoreProviders ==
    { <<>>, <<Bare(HookUrl), Bare(SmsUrl)>>, <<Bare(SmsUrl), Bare(HookUrl)>>,
      <<Dict(<<>>, Auth), Dict(NearUrl, Auth)>>, <<Bare(SmsUrl), Dict(SmsUrl, Auth)>> }

\* numbers.txt and template.txt as earlier admin requests left them, or
\* numbers.txt missing; only alert requests follow
InitAlert ==
    /\ file \in { save_numbers(ts, ps) : ts \in StoreTeams, ps \in StoreProviders } \cup {<<>>}
    /\ tfile \in { save_template(t) : t \in TemplateForms }
    /\ pc = "idle" /\ req = NoReq
    /\ numbers = <<>> /\ message = <<>> /\ providers = <<>>
    /\ pi = 1 /\ nj = 1 /\ seen = {} /\ log = <<>>
    /\ response = NoResponse
    /\ workers = NoWorkers

NextAlert ==
    \/ \E team \in ReqTeams, data \in Payloads : AlertBegin(team, data)
    \/ Send
    \/ AlertRespond
    \/ AlertEnd

SpecAlert == InitAlert /\ [][NextAlert]_vars


(* ------------------- build_message called on its own ------------------ *)
Entry2 == [has |-> {}, status |-> <<>>, summary |-> <<>>,
           description |-> <<>>, alertname |-> <<>>]
Entry3 == [has |-> {"summary", "description"}, status |-> <<>>,
           summary |-> <<"a", "\n", "b">>, description |-> <<"d">>, alertname |-> <<>>]

AlertSeqs == UNION { [1..n -> {Entry1, Entry2, Entry3}] : n \in 0..MaxAlerts }

\* the payloads: any set of the top-level keys alerts, title, state and message
BuildPayloads ==
    { [keys |-> ks, alerts |-> as, state |-> <<"o","k">>, message |-> <<"m">>,
       ruleName |-> <<>>] :
        ks \in SUBSET {"alerts", "title", "state", "message"},
        as \in AlertSeqs }

TBogus == <<"{","x","}">>
TAll == <<"{","s","t","a","t","u","s","}","|","{","s","u","m","m","a","r","y","}","|",
          "{","d","e","s","c","r","i","p","t","i","o","n","}","|",
          "{","a","l","e","r","t","n","a","m","e","}">>
BuildTemplates == { <<>>, <<TDesc>>, <<TBogus>>, <<TAll>> }

\* build_message(data, get_template()) is called with any payload and template
InitBuild ==
    /\ file = <<>>
    /\ tfile \in BuildTemplates
    /\ pc = "build"
    /\ req \in { [team |-> <<>>, data |-> d] : d \in BuildPayloads }
    /\ ("alerts" \notin req.data.keys => req.data.alerts = <<>>)
    /\ numbers = <<>> /\ message = <<>> /\ providers = <<>>
    /\ pi = 1 /\ nj = 1 /\ seen = {} /\ log = <<>>
    /\ response = NoResponse
    /\ workers = NoWorkers

\* lines 98-122: the call returns the message or raises
Build ==
    /\ pc = "build"
    /\ LET m == build_message(req.data, get_template(tfile)) IN
       /\ message' = m.text
       /\ pc' = IF m.ok THEN "built" ELSE "raised"
    /\ UNCHANGED <<file, tfile, req, numbers, providers, pi, nj, seen, log, response, workers>>

SpecBuild == InitBuild /\ [][Build]_vars

(* ------------- alert requests under the stored templates -------------- *)
EmptyMulti == [NoData EXCEPT !.keys = {"alerts"}]
TemplatePayloads == {EmptyMulti, MultiData, StateData, OtherData}
StoredTemplates == { <<>>, <<TDesc>>, <<TBogus>> }

\* one store: a number of team devops mirrored in all, a webhook provider, an
\* SMS provider and a provider without url; any of the stored templates
InitTemplates ==
    /\ file = save_numbers([EmptyTeams EXCEPT ![TEAMS[2]] = Entries(<<N1>>),
                                              ![All] = Entries(<<N1>>)],
                           <<Bare(HookUrl), Bare(SmsUrl), Dict(<<>>, Auth)>>)
    /\ tfile \in { save_template(t) : t \in StoredTemplates }
    /\ pc = "idle" /\ req = NoReq
    /\ numbers = <<>> /\ message = <<>> /\ providers = <<>>
    /\ pi = 1 /\ nj = 1 /\ seen = {} /\ log = <<>>
    /\ response = NoResponse
    /\ workers = NoWorkers

NextTemplates ==
    \/ \E team \in ReqTeams, data \in TemplatePayloads : AlertBegin(team, data)
    \/ Send
    \/ AlertRespond
    \/ AlertEnd

SpecTemplates == InitTemplates /\ [][NextTemplates]_vars


(* ---------------- two admin requests handled concurrently ------------- *)
\* Flask's server handles every request on its own thread (app.run, line 296),
\* and no handler takes a lock: between the load_numbers and the save_numbers
\* of one request the other request may run either.  Each of load_numbers and
\* save_numbers is taken as one step on the file.
NoForm == [number |-> <<>>, desc |-> <<>>]
NoProviderForm == [url |-> <<>>, headers |-> {}]
AddNumberOp(team, form) ==
    [kind |-> "add_number", team |-> team, form |-> form, pform |-> NoProviderForm]
AddProviderOp(pform) ==
    [kind |-> "add_provider", team |-> <<>>, form |-> NoForm, pform |-> pform]

\* the requests: add_number for two numbers and two teams, add_provider for
\* two urls
ConcOps ==
    { AddNumberOp(TEAMS[2], [number |-> N1, desc |-> <<>>]),
      AddNumberOp(TEAMS[2], [number |-> N2, desc |-> <<"d">>]),
      AddNumberOp(All, [number |-> N3, desc |-> <<>>]),
      AddProviderOp([url |-> HookUrl, headers |-> {}]),
      AddProviderOp([url |-> SmsUrl, headers |-> Auth]) }

NoLocals == [teams |-> EmptyTeams, providers |-> <<>>]

\* the store is missing or holds a number and a provider; two different
\* requests have arrived, neither has started
InitConc ==
    /\ file \in { <<>>,
                  save_numbers([EmptyTeams EXCEPT ![All] = Entries(<<N1>>)],
                               <<Bare(SmsUrl)>>) }
    /\ tfile = <<>>
    /\ pc = "idle" /\ req = NoReq
    /\ numbers = <<>> /\ message = <<>> /\ providers = <<>>
    /\ pi = 1 /\ nj = 1 /\ seen = {} /\ log = <<>>
    /\ response = NoResponse
    /\ workers \in { <<[op |-> a, at |-> "start", ld |-> NoLocals],
                       [op |-> b, at |-> "start", ld |-> NoLocals]>> :
                        a \in ConcOps, b \in ConcOps }
    /\ workers[1].op # workers[2].op

\* lines 215 and 240: teams, providers = load_numbers()
Load(w) ==
    /\ workers[w].at = "start"
    /\ LET l == load_numbers(file) IN
       workers' = [workers EXCEPT ![w].at = "loaded",
                                  ![w].ld = [teams |-> l.teams, providers |-> l.providers]]
    /\ file' = <<ReadFile(file)>>
    /\ UNCHANGED <<tfile, pc, req, numbers, message, providers, pi, nj, seen, log, response>>

\* lines 218-223 and 249-254: the local lists are changed and saved, and the
\* request ends
Save(w) ==
    /\ workers[w].at = "loaded"
    /\ LET op == workers[w].op
           ld == workers[w].ld
           p == FormProvider(op.pform) IN
       file' = IF op.kind = "add_number"
               THEN IF op.team \in TeamSet /\ Len(op.form.number) > 0
                    THEN save_numbers(AddedTeams(ld.teams, op.team, op.form.number,
                                                 op.form.desc), ld.providers)
                    ELSE file
               ELSE save_numbers(ld.teams,
                        IF InSeq(p, ld.providers) THEN ld.providers
                        ELSE Append(ld.providers, p))
    /\ workers' = [workers EXCEPT ![w].at = "done"]
    /\ UNCHANGED <<tfile, pc, req, numbers, message, providers, pi, nj, seen, log, response>>

NextConc == \E w \in 1..2 : Load(w) \/ Save(w)

SpecConc == InitConc /\ [][NextConc]_vars


(* ======================= properties of the log ======================== *)
IsRequest(e) == e.kind \in {"json", "form"}

\* the positions of the log that hold a request to provider i
RequestsTo(i) == {k \in 1..Len(log) : IsRequest(log[k]) /\ log[k].prov = i}

\* the positions of the log that hold a request to provider i for number n
RequestsFor(i, n) == {k \in RequestsTo(i) : log[k].kind = "form" /\ log[k].to = n}

SomeRaise == \E k \in 1..Len(log) : log[k].outcome = "raise"

Elements(s) == {s[k] : k \in 1..Len(s)}

\* provider i has a url that is neither absent nor empty
HasUrl(i) == providers[i].hasUrl /\ providers[i].url # <<>>

\* provider i is an SMS provider: it has a url, without the substring /hooks/
IsSms(i) == HasUrl(i) /\ ~Contains(Hooks, providers[i].url)

IsHook(i) == HasUrl(i) /\ Contains(Hooks, providers[i].url)

\* C1: when send_sms has returned, every SMS provider was sent a request for
\* every number of the recipient list, also when the request for an earlier
\* number raised.
C1_RemainingNumbersAttempted ==
    pc = "returned" =>
        \A i \in 1..Len(providers) : IsSms(i) =>
            \A n \in Elements(numbers) : RequestsFor(i, n) # {}

\* provider i was attempted: a webhook got its request, an SMS provider the
\* request for the first number (when there is one)
Attempted(i) ==
    /\ IsHook(i) => \E k \in RequestsTo(i) : log[k].kind = "json"
    /\ (IsSms(i) /\ Len(numbers) > 0) => RequestsFor(i, numbers[1]) # {}

\* C2: whatever requests raise, send_sms is never left by an exception (it is
\* in the loop or has returned normally, and until it has returned it can take
\* a step), and when it has returned every provider with a non-empty url was
\* attempted.
C2_ProviderIsolation ==
    /\ pc \in {"loop", "sleep", "returned"}
    /\ pc # "returned" => ENABLED Send
    /\ pc = "returned" => \A i \in 1..Len(providers) : HasUrl(i) => Attempted(i)

\* a request to the first provider raised and the second provider got its request
C2_Witness ==
    /\ pc = "returned" /\ Len(providers) = 2
    /\ \E k \in RequestsTo(1) : log[k].outcome = "raise"
    /\ RequestsTo(2) # {}

\* the numbers of a team's destination list in the store
TeamNumbers(team) ==
    LET es == load_numbers(file).teams[team] IN {es[k].number : k \in 1..Len(es)}

\* C3: every number in the destination list of a team other than all is in the
\* destination list of team all.
C3_Mirroring ==
    \A team \in TeamSet \ {All} : TeamNumbers(team) \subseteq TeamNumbers(All)

\* the numbers of a team's destination list in the store, in list order
StoredNumbers(team) ==
    IF team \in TeamSet
    THEN LET es == load_numbers(file).teams[team] IN [k \in 1..Len(es) |-> es[k].number]
    ELSE <<>>

FirstIndex(s, x) == CHOOSE k \in 1..Len(s) : s[k] = x /\ \A m \in 1..(k - 1) : s[m] # x

\* out holds the elements of s, each once, in the order of their first
\* occurrence in s
IsFirstSeen(out, s) ==
    /\ Elements(out) = Elements(s)
    /\ \A a, b \in 1..Len(out) :
        a < b => out[a] # out[b] /\ FirstIndex(s, out[a]) < FirstIndex(s, out[b])

\* build_message does not raise on the request being handled
Built == build_message(req.data, get_template(tfile)).ok

\* C4 as stated: every alert request ends with the success response whose
\* sent_to is the resolved recipient list of the team.
C4_AlwaysSuccess ==
    pc = "done" =>
        /\ response.status = "ok"
        /\ IsFirstSeen(response.sent_to, StoredNumbers(req.team))

\* C4: an alert request on which build_message does not raise is dispatching,
\* without a response yet, or has ended with the success response whose
\* sent_to is the resolved recipient list of the team, whatever the outcomes
\* of the requests in the log.
C4_SuccessWhenBuilt ==
    (pc # "idle" /\ Built) =>
        \/ pc \in {"loop", "sleep", "returned"} /\ response = NoResponse
        \/ /\ pc = "done"
           /\ response.status = "ok"
           /\ IsFirstSeen(response.sent_to, StoredNumbers(req.team))

\* a request ended with success and a non-empty sent_to although a send raised
C4_Witness ==
    /\ pc = "done" /\ response.status = "ok" /\ Len(response.sent_to) > 0
    /\ SomeRaise

\* C5: requests are issued in provider-list order, and the requests to one SMS
\* provider go to numbers in the order of their first occurrence in the
\* team's destination list.
C5_DispatchOrder ==
    /\ \A a, b \in 1..Len(log) :
        (a < b /\ IsRequest(log[a]) /\ IsRequest(log[b])) => log[a].prov <= log[b].prov
    /\ \A a, b \in 1..Len(log) :
        (a < b /\ log[a].kind = "form" /\ log[b].kind = "form" /\ log[a].prov = log[b].prov)
            => /\ log[a].to \in Elements(StoredNumbers(req.team))
               /\ log[b].to \in Elements(StoredNumbers(req.team))
               /\ FirstIndex(StoredNumbers(req.team), log[a].to)
                    < FirstIndex(StoredNumbers(req.team), log[b].to)

\* both providers of the store got requests, the SMS provider for the two
\* numbers of the list 1, 2, 1
C5_Witness ==
    /\ pc = "returned" /\ Len(providers) = 2
    /\ StoredNumbers(req.team) = <<N1, N2, N1>>
    /\ RequestsTo(1) # {} /\ RequestsTo(2) # {}
    /\ \E i \in 1..2 : RequestsFor(i, N1) # {} /\ RequestsFor(i, N2) # {}

\* C6: when send_sms has returned and no request raised, a provider whose url
\* contains /hooks/ got exactly one request, with the message as JSON body, and
\* every other provider with a non-empty url exactly one form-encoded request
\* per distinct number.
C6_FanOut ==
    (pc = "returned" /\ ~SomeRaise) =>
        \A i \in 1..Len(providers) :
            /\ IsHook(i) =>
                /\ Cardinality(RequestsTo(i)) = 1
                /\ \A k \in RequestsTo(i) : log[k].kind = "json" /\ log[k].text = message
            /\ IsSms(i) =>
                /\ Cardinality(RequestsTo(i)) = Cardinality(Elements(numbers))
                /\ \A n \in Elements(numbers) : Cardinality(RequestsFor(i, n)) = 1
                /\ \A k \in RequestsTo(i) : log[k].kind = "form" /\ log[k].text = message

\* a webhook provider followed by an SMS provider, three numbers: one webhook
\* request, then three SMS requests
C6_Witness ==
    /\ pc = "returned" /\ ~SomeRaise
    /\ providers = <<Bare(HookUrl), Bare(SmsUrl)>>
    /\ numbers = <<N1, N2, N3>>
    /\ [k \in 1..Len(log) |-> log[k].kind] = <<"json", "sleep", "form", "form", "form", "sleep">>

\* C7: for a recognized team the alert handler resolves the numbers of the
\* team's destination list, each once, in the order of first occurrence.
C7_Resolution ==
    (pc # "idle" /\ req.team \in TeamSet) => IsFirstSeen(numbers, StoredNumbers(req.team))

\* the list 1, 2, 1 resolved to 1, 2
C7_Witness ==
    /\ pc = "loop" /\ req.team \in TeamSet
    /\ StoredNumbers(req.team) = <<N1, N2, N1>>
    /\ numbers = <<N1, N2>>

\* C8 as stated: an alert request for a team outside TEAMS ends with the
\* success response with an empty sent_to.
C8_UnknownTeamSuccess ==
    (pc = "done" /\ req.team \notin TeamSet) => response = [status |-> "ok", sent_to |-> <<>>]

\* C8: an alert request for a team outside TEAMS resolves no number and sends
\* no SMS request, whatever the store holds; it ends with the success
\* response with an empty sent_to unless build_message raised.
C8_UnknownTeamEmpty ==
    (pc # "idle" /\ req.team \notin TeamSet) =>
        /\ numbers = <<>>
        /\ \A k \in 1..Len(log) : log[k].kind # "form"
        /\ pc = "done" =>
            IF Built THEN response = [status |-> "ok", sent_to |-> <<>>]
            ELSE response.status = "error"

\* team all holds numbers, the request names no team of TEAMS, the dispatch
\* went through an SMS provider and the response is the empty success
C8_Witness ==
    /\ pc = "done" /\ req.team = Bogus
    /\ Len(StoredNumbers(All)) > 0
    /\ \E i \in 1..Len(providers) : IsSms(i)
    /\ response = [status |-> "ok", sent_to |-> <<>>]

\* C9: in one dispatch a webhook provider entry gets at most one request and
\* an SMS provider entry at most one request per number, whatever the outcomes
\* and also when numbers holds duplicates.
C9_NoRetry ==
    \A i \in 1..Len(providers) :
        /\ IsHook(i) => Cardinality(RequestsTo(i)) <= 1
        /\ \A n \in Elements(numbers) : Cardinality(RequestsFor(i, n)) <= 1
        /\ \A k \in RequestsTo(i) : log[k].kind = "form" => log[k].to \in Elements(numbers)

\* numbers holds a duplicate, a request raised, and the dispatch went on to
\* the second provider
C9_Witness ==
    /\ pc = "returned" /\ Len(providers) = 2
    /\ Cardinality(Elements(numbers)) < Len(numbers)
    /\ \E k \in RequestsTo(1) : log[k].outcome = "raise"
    /\ \E k \in RequestsTo(2) : log[k].kind = "form"

\* C10: a provider whose url is absent or empty gets no request and records
\* no failure, and the loop goes on: its iteration can be passed over, and
\* when send_sms has returned the providers after it were attempted.
C10_EmptyUrlSkipped ==
    \A i \in 1..Len(providers) : ~HasUrl(i) =>
        /\ RequestsTo(i) = {}
        /\ (pc = "loop" /\ pi = i) => ENABLED SendSkip
        /\ pc = "returned" =>
            \A m \in (i + 1)..Len(providers) : HasUrl(m) => Attempted(m)

\* the first provider has no url or an empty one, got nothing, and the second
\* provider got its requests
C10_Witness ==
    /\ pc = "returned" /\ Len(providers) = 2
    /\ ~HasUrl(1) /\ RequestsTo(1) = {}
    /\ RequestsTo(2) # {}
    /\ Len(numbers) > 0

\* the positions of the log that hold the pacing wait of provider i's iteration
PausesOf(i) == {k \in 1..Len(log) : log[k].kind = "sleep" /\ log[k].prov = i}

\* C11: between a request to one provider and a later request to another
\* provider lies the pacing wait of the first one's iteration; an iteration
\* has one pacing wait, after all its requests, whatever their outcomes, and
\* when send_sms has returned every provider with a url has had its wait.
C11_Pacing ==
    /\ \A a, b \in 1..Len(log) :
        (a < b /\ IsRequest(log[a]) /\ IsRequest(log[b]) /\ log[a].prov # log[b].prov)
            => \E c \in PausesOf(log[a].prov) : a < c /\ c < b
    /\ \A i \in 1..Len(providers) :
        /\ Cardinality(PausesOf(i)) <= 1
        /\ \A c \in PausesOf(i) : \A k \in RequestsTo(i) : k < c
        /\ (pc = "returned" /\ HasUrl(i)) => Cardinality(PausesOf(i)) = 1

\* the only request to the first provider raised, and the wait of its
\* iteration precedes the requests to the second provider
C11_Witness ==
    /\ pc = "returned" /\ Len(providers) = 2
    /\ Cardinality(RequestsTo(1)) = 1
    /\ \A k \in RequestsTo(1) : log[k].outcome = "raise"
    /\ Cardinality(RequestsTo(2)) > 1
    /\ PausesOf(1) # {}

(* ----------------------- properties of build_message ------------------ *)
\* the template build_message formats with: the stored one, or the default
UsedTemplate ==
    LET c == get_template(tfile) IN
    IF c # <<>> /\ Len(c[1]) > 0 THEN c[1] ELSE DEFAULT_TEMPLATE

\* the replacement fields of a template, as pairs of brace positions
Fields(tpl) ==
    { f \in (1..Len(tpl)) \X (1..Len(tpl)) :
        /\ f[1] < f[2] /\ tpl[f[1]] = "{" /\ tpl[f[2]] = "}"
        /\ \A c \in (f[1] + 1)..(f[2] - 1) : tpl[c] \notin {"{", "}"} }

FieldNames(tpl) == { SubSeq(tpl, f[1] + 1, f[2] - 1) : f \in Fields(tpl) }

\* every brace of the template delimits a replacement field
WellFormed(tpl) ==
    \A k \in 1..Len(tpl) :
        tpl[k] \in {"{", "}"} => \E f \in Fields(tpl) : k \in {f[1], f[2]}

Recognized == {KStatus, KSummary, KDescription, KAlertname}

\* the rendering of entry i of the payload's alerts
Rendering(i) == Format(UsedTemplate, AlertKw(req.data.alerts[i]), 1).text

\* the number of characters of the message before the rendering of entry i
RECURSIVE Offset(_)
Offset(i) == IF i = 1 THEN 0 ELSE Offset(i - 1) + Len(Rendering(i - 1)) + 1

Finished == pc \in {"built", "raised"}

\* C12: for a payload with an alerts field of N entries and a template that
\* uses only the four recognized placeholders, build_message returns the N
\* renderings in entry order, consecutive ones separated by exactly one
\* newline and nothing after the last; a line is the rendering of an entry,
\* so when no rendering contains a newline the message has N - 1 newlines.
C12_MultiLines ==
    (/\ Finished /\ "alerts" \in req.data.keys
     /\ WellFormed(UsedTemplate) /\ FieldNames(UsedTemplate) \subseteq Recognized)
    => LET N == Len(req.data.alerts) IN
       /\ pc = "built"
       /\ Len(message) = IF N = 0 THEN 0 ELSE Offset(N) + Len(Rendering(N))
       /\ \A i \in 1..N :
            SubSeq(message, Offset(i) + 1, Offset(i) + Len(Rendering(i))) = Rendering(i)
       /\ \A i \in 2..N : message[Offset(i)] = "\n"
       /\ (\A i \in 1..N : ~Contains(<<"\n">>, Rendering(i)))
            => Cardinality({k \in 1..Len(message) : message[k] = "\n"})
                 = IF N = 0 THEN 0 ELSE N - 1

\* two different entries rendered with a template of all four placeholders
C12_Witness ==
    /\ pc = "built" /\ "alerts" \in req.data.keys
    /\ UsedTemplate = TAll
    /\ Len(req.data.alerts) = 2
    /\ req.data.alerts[1] = Entry1 /\ req.data.alerts[2] = Entry2
    /\ Len(message) > Len(Rendering(1)) + 1

\* the payload has no alerts field and has both title and state
IsStateForm == "alerts" \notin req.data.keys /\ {"title", "state"} \subseteq req.data.keys

NoNewline(s) == \A k \in 1..Len(s) : s[k] # "\n"

\* C13 as stated: a payload with alerts is built as multi-alert whatever else
\* it has, a payload without alerts and with title and state yields exactly one
\* line, every other payload yields the empty string and no error.
C13_SelectionAsStated ==
    Finished =>
        IF "alerts" \in req.data.keys THEN
            LET r == FormatAlerts(UsedTemplate, req.data.alerts, 1) IN
            /\ (pc = "built") = r.ok
            /\ r.ok => message = Join(r.msgs, 1)
        ELSE IF IsStateForm THEN
            /\ pc = "built"
            /\ message = Format(UsedTemplate, StateKw(req.data), 1).text
            /\ NoNewline(message)
        ELSE pc = "built" /\ message = <<>>

\* C13: as above, the payload with title and state yielding its one line when
\* the template uses only status, summary and alertname, and raising when the
\* template uses another placeholder, description included.
C13_Selection ==
    Finished =>
        IF "alerts" \in req.data.keys THEN
            LET r == FormatAlerts(UsedTemplate, req.data.alerts, 1) IN
            /\ (pc = "built") = r.ok
            /\ r.ok => message = Join(r.msgs, 1)
        ELSE IF IsStateForm THEN
            IF FieldNames(UsedTemplate) \subseteq {KStatus, KSummary, KAlertname} THEN
                /\ pc = "built"
                /\ message = Format(UsedTemplate, StateKw(req.data), 1).text
                /\ NoNewline(message)
            ELSE pc = "raised"
        ELSE pc = "built" /\ message = <<>>

\* a payload with alerts, title and state was built from its two entries, and
\* not from its state
C13_Witness ==
    /\ pc = "built"
    /\ {"alerts", "title", "state"} \subseteq req.data.keys
    /\ Len(req.data.alerts) = 2
    /\ tfile = <<>>
    /\ message # Format(UsedTemplate, StateKw(req.data), 1).text

(* ------------- properties of alert requests and templates ------------- *)
\* the placeholders the detected variant of the payload supplies
Supplied(data) ==
    IF "alerts" \in data.keys THEN Recognized
    ELSE IF {"title", "state"} \subseteq data.keys THEN {KStatus, KSummary, KAlertname}
    ELSE {}

\* the template names a placeholder the payload's variant does not supply
Unsupplied == FieldNames(UsedTemplate) \ Supplied(req.data) # {}

\* the request ended with an error before any outbound request
RaisedNoDispatch == pc = "done" /\ response.status = "error" /\ log = <<>>

\* build_message formats the template at least once for the payload
Formats ==
    \/ "alerts" \in req.data.keys /\ Len(req.data.alerts) > 0
    \/ "alerts" \notin req.data.keys /\ {"title", "state"} \subseteq req.data.keys

\* C14 as stated: an alert request whose template names a placeholder the
\* payload's variant does not supply ends with an error and no outbound request.
C14_UnsuppliedRaises ==
    (pc # "idle" /\ Unsupplied) => RaisedNoDispatch

\* C14: it does so when the payload has title and state or at least one alert
\* entry; a payload that is formatted never (no entry, or neither shape) is
\* built without error whatever the template names, and is dispatched.
C14_UnsuppliedRaisesWhenFormatted ==
    /\ (pc # "idle" /\ Unsupplied /\ Formats) => RaisedNoDispatch
    /\ (pc # "idle" /\ ~Formats) => response.status # "error"
    /\ (pc = "done" /\ ~Formats) =>
            /\ response.status = "ok"
            /\ \E k \in 1..Len(log) : IsRequest(log[k])

\* a payload with one alert entry under a template naming an unknown
\* placeholder, in a store with providers
C14_Witness ==
    /\ RaisedNoDispatch
    /\ req.data = MultiData /\ tfile = <<TBogus>>
    /\ load_numbers(file).providers # <<>>

(* ------------------- properties of the routing store ------------------ *)
\* C15: no team's destination list in the store holds the same number twice,
\* in any state that add_number and remove_number requests reach from the
\* empty store.
C15_NoDuplicates ==
    \A team \in TeamSet :
        LET s == StoredNumbers(team) IN
        \A a, b \in 1..Len(s) : a # b => s[a] # s[b]

\* the routing content of file f: the team lists and the provider list
Content(f) == load_numbers(f)

\* C16: when add_number(team, number) completes with a recognized team and a
\* non-empty number, the number is in that team's list and in the list of all;
\* with an unrecognized team or an empty number the routing content after the
\* request equals the content before it.
C16_AddNumberPost ==
    [][\A team \in ReqTeams, form \in AddForms :
        add_number(team, form) =>
            IF team \in TeamSet /\ Len(form.number) > 0
            THEN /\ HasNumber(Content(file').teams[team], form.number)
                 /\ HasNumber(Content(file').teams[All], form.number)
            ELSE Content(file') = Content(file)]_vars

\* C17: no step of an alert request changes the routing content: the team
\* lists and the provider list a load reads from numbers.txt after the step are
\* those it reads before it, for every team, payload and delivery outcome.
C17_RoutingUnchanged ==
    [][Content(file') = Content(file)]_vars

\* a request for a team with numbers went through providers, a delivery
\* failed, and the store still holds the numbers and the providers
C17_Witness ==
    /\ pc = "done" /\ response.status = "ok" /\ SomeRaise
    /\ req.team = TEAMS[2]
    /\ Len(Content(file).teams[TEAMS[2]]) > 1
    /\ Len(Content(file).providers) > 1

\* C19: an alert request whose message was built runs send_sms on the whole
\* provider list of the store; when it has returned, every webhook provider
\* with a url was sent exactly one request, carrying the message, also when
\* the recipient list or the message is empty, and an SMS provider was sent
\* no request exactly when the recipient list is empty.
C19_DispatchUnconditional ==
    /\ (pc # "idle" /\ Built) => providers = Content(file).providers
    /\ (pc = "done" /\ Built) => response.status = "ok"
    /\ (pc \in {"returned", "done"} /\ response.status # "error") =>
        \A i \in 1..Len(providers) :
            /\ IsHook(i) =>
                /\ Cardinality(RequestsTo(i)) = 1
                /\ \A k \in RequestsTo(i) : log[k].text = message
            /\ IsSms(i) => ((RequestsTo(i) = {}) <=> (numbers = <<>>))

\* an unrecognized team and a payload of neither shape, in a store with
\* numbers: the webhook provider got its one request with the empty message,
\* the SMS provider none
C19_Witness ==
    /\ pc = "done" /\ response.status = "ok"
    /\ req.team \notin TeamSet /\ req.data = OtherData
    /\ message = <<>> /\ numbers = <<>>
    /\ Content(file).teams[All] # <<>>
    /\ \E i \in 1..Len(providers) : IsHook(i) /\ Cardinality(RequestsTo(i)) = 1
    /\ \E i \in 1..Len(providers) : IsSms(i) /\ RequestsTo(i) = {}

(* ------------------ properties of concurrent requests ----------------- *)
\* the store holds what the request op adds
Reflected(op) ==
    IF op.kind = "add_number"
    THEN /\ HasNumber(Content(file).teams[op.team], op.form.number)
         /\ HasNumber(Content(file).teams[All], op.form.number)
    ELSE InSeq(FormProvider(op.pform), Content(file).providers)

\* C18: when two concurrent add_number or add_provider requests have both
\* completed, whatever the order of their loads and saves, the store holds
\* what each of them added.
C18_NoLostUpdate ==
    (\A w \in DOMAIN workers : workers[w].at = "done")
        => \A w \in DOMAIN workers : Reflected(workers[w].op)

====
